---- MODULE Spec2Model ----
(***************************************************************************)
(* Utah permit practice flashcards (src/src/App.tsx): the deck builder     *)
(* (shuffleArray, buildOptions, buildDeck) and the session controller of   *)
(* the App component (mode, filter, deck, position, selection, score), and *)
(* the theme with its stored preference.                                   *)
(*                                                                         *)
(* Text is a sequence of one-character strings, so that String.trim and    *)
(* String.toLowerCase are computed rather than assumed.  Positions keep    *)
(* the source's 0-based numbering; At(seq, i) reads seq[i] of the source.  *)
(* Math.random is a nondeterministic choice: an operator that shuffles     *)
(* denotes the SET of results the code can return.                         *)
(***************************************************************************)
EXTENDS Integers, Sequences, FiniteSets, TLC

VARIABLES
    allSources,      \* FLASHCARD_SOURCES, the question bank (never mutated)
    testSize,        \* the practice-test size in force (see TestSizes)
    activeCategory,  \* useState: CATEGORY_ALL or a category of the bank
    mode,            \* useState: "study" | "practiceTest"
    deck,            \* useState: sequence of PermitQuestion cards
    currentIndex,    \* useState: 0-based position in the deck
    selectedOption,  \* useState: NONE or a 0-based option index
    correctCount,    \* useState
    showSummary,     \* useState
    effectPending,   \* the deck-rebuild effect is scheduled and has not run
    lastEvent,       \* history: the handler that ran last
    answered,        \* history: the options clicked on cards 0.. of this deck
    builtFrom,       \* history: bag of the source ids last given to buildDeck
    built,           \* <<>>, or <<r>> for one buildOptions call r (SpecBuild only)
    theme,           \* useState: "light" | "dark"
    storedTheme,     \* localStorage item 'pt-theme': NULL or a text
    themeEnv         \* the browser at startup: what storage does and held, and
                     \* whether the system prefers dark

vars == <<allSources, testSize, activeCategory, mode, deck, currentIndex,
          selectedOption, correctCount, showSummary, effectPending,
          lastEvent, answered, builtFrom, built, theme, storedTheme, themeEnv>>

themeVars == <<theme, storedTheme, themeEnv>>

NULL == "null"   \* an absent text (imageUrl)
NONE == -1       \* selectedOption === null
CATEGORY_ALL == "all"
PRACTICE_TEST_SIZE == 50
desiredOptionCount == 4

-----------------------------------------------------------------------------
(* Text *)

Range(s) == { s[i] : i \in 1..Len(s) }
Min(a, b) == IF a < b THEN a ELSE b
At(s, i) == s[i + 1]

IsSpace(c) == c = " "

ToLowerChar(c) ==
    CASE c = "A" -> "a"
      [] c = "B" -> "b"
      [] c = "C" -> "c"
      [] OTHER -> c

ToLowerCase(s) == [i \in 1..Len(s) |-> ToLowerChar(s[i])]

RECURSIVE TrimStart(_)
TrimStart(s) ==
    IF Len(s) > 0 /\ IsSpace(Head(s)) THEN TrimStart(Tail(s)) ELSE s

RECURSIVE TrimEnd(_)
TrimEnd(s) ==
    IF Len(s) > 0 /\ IsSpace(s[Len(s)]) THEN TrimEnd(SubSeq(s, 1, Len(s) - 1)) ELSE s

Trim(s) == TrimEnd(TrimStart(s))

-----------------------------------------------------------------------------
(* shuffleArray: the Fisher-Yates loop, index from length-1 down to 1, with *)
(* swapIndex any of 0..index.  ShuffleFrom(draft, index) is the set of      *)
(* drafts the loop can end with when it is about to run with `index`.       *)

\* a swap that loses draft[index]: only draft[index] = draft[swapIndex]
SwapOverwriting(draft, i, j) ==
    [k \in 1..Len(draft) |-> IF k = i + 1 THEN At(draft, j) ELSE draft[k]]

Swap(draft, i, j) ==
    [k \in 1..Len(draft) |->
        IF k = i + 1 THEN At(draft, j) ELSE IF k = j + 1 THEN At(draft, i) ELSE draft[k]]

RECURSIVE ShuffleFrom(_, _)
ShuffleFrom(draft, index) ==
    IF index > 0
    THEN UNION { ShuffleFrom(Swap(draft, index, swapIndex), index - 1) :
                    swapIndex \in 0..index }
    ELSE {draft}

ShuffleArray(input) == ShuffleFrom(input, Len(input) - 1)

-----------------------------------------------------------------------------
(* buildOptions.  distractorSet is a JavaScript Set: it keeps insertion     *)
(* order and compares strings exactly, so it is a duplicate-free sequence.  *)

SetAdd(set, value) == IF value \in Range(set) THEN set ELSE Append(set, value)

AddCandidate(distractorSet, candidate, source) ==
    IF Len(candidate) = 0 THEN distractorSet
    ELSE LET trimmed == Trim(candidate) IN
         IF Len(trimmed) = 0 THEN distractorSet
         ELSE IF ToLowerCase(trimmed) = ToLowerCase(Trim(source.answer)) THEN distractorSet
         ELSE SetAdd(distractorSet, trimmed)

\* shuffleArray(source.distractors).forEach(...): every item is visited, and
\* added only while the set holds fewer than desiredOptionCount - 1.
RECURSIVE AddCurated(_, _, _)
AddCurated(distractorSet, items, source) ==
    IF Len(items) = 0 THEN distractorSet
    ELSE AddCurated(IF Len(distractorSet) < desiredOptionCount - 1
                    THEN AddCandidate(distractorSet, Head(items), source)
                    ELSE distractorSet,
                    Tail(items), source)

\* the for..of loop of fillFromAnswers, over an already shuffled pool
RECURSIVE FillLoop(_, _, _)
FillLoop(distractorSet, shuffled, source) ==
    IF Len(shuffled) = 0 THEN distractorSet
    ELSE IF Len(distractorSet) >= desiredOptionCount - 1 THEN distractorSet
    ELSE FillLoop(AddCandidate(distractorSet, Head(shuffled), source), Tail(shuffled), source)

FillFromAnswers(distractorSet, pool, source) ==
    IF Len(pool) = 0 THEN {distractorSet}
    ELSE { FillLoop(distractorSet, shuffled, source) : shuffled \in ShuffleArray(pool) }

OtherAnswers(pool, source) ==
    LET others == SelectSeq(pool, LAMBDA item : item.id # source.id)
    IN  [i \in 1..Len(others) |-> others[i].answer]

\* options.findIndex(option => option === source.answer), -1 when absent
RECURSIVE FindIndexFrom(_, _, _)
FindIndexFrom(options, value, i) ==
    IF i >= Len(options) THEN -1
    ELSE IF At(options, i) = value THEN i
    ELSE FindIndexFrom(options, value, i + 1)

FindIndex(options, value) == FindIndexFrom(options, value, 0)

Combined(source, distractorSet) ==
    <<source.answer>> \o SubSeq(distractorSet, 1, Min(desiredOptionCount - 1, Len(distractorSet)))

OptionsResult(options, source) ==
    LET answerIndex == FindIndex(options, source.answer)
    IN  [options |-> options, answerIndex |-> IF answerIndex = -1 THEN 0 ELSE answerIndex]

BuildOptions(source, categoryPool, globalPool) ==
    LET afterCurated ==
            IF Len(source.distractors) > 0
            THEN { AddCurated(<<>>, items, source) : items \in ShuffleArray(source.distractors) }
            ELSE { <<>> }
        categoryAnswers == OtherAnswers(categoryPool, source)
        globalAnswers == OtherAnswers(globalPool, source)
        afterCategory ==
            UNION { IF Len(d) < desiredOptionCount - 1
                    THEN FillFromAnswers(d, categoryAnswers, source)
                    ELSE {d} : d \in afterCurated }
        afterGlobal ==
            UNION { IF Len(d) < desiredOptionCount - 1
                    THEN FillFromAnswers(d, globalAnswers, source)
                    ELSE {d} : d \in afterCategory }
    IN  UNION { { OptionsResult(options, source) :
                    options \in ShuffleArray(Combined(source, d)) } : d \in afterGlobal }

-----------------------------------------------------------------------------
(* buildDeck *)

\* the category filter lost: the category pool is the whole bank
CategoryPoolWhole(globalPool, source) == globalPool

CategoryPool(globalPool, source) ==
    SelectSeq(globalPool, LAMBDA item : item.category = source.category)

Card(source, built_) ==
    [id |-> source.id, prompt |-> source.prompt, options |-> built_.options,
     answerIndex |-> built_.answerIndex, answer |-> source.answer,
     reference |-> source.reference, category |-> source.category,
     imageUrl |-> source.imageUrl]

\* sources.map(...): the sequences of cards the map can return
RECURSIVE MapCards(_, _)
MapCards(sources, globalPool) ==
    IF Len(sources) = 0 THEN { <<>> }
    ELSE LET source == Head(sources)
             firsts == { Card(source, b) :
                           b \in BuildOptions(source, CategoryPool(globalPool, source), globalPool) }
         IN  { <<c>> \o rest : c \in firsts, rest \in MapCards(Tail(sources), globalPool) }

BuildDeck(sources, globalPool) ==
    IF Len(sources) = 0 THEN { <<>> }
    ELSE UNION { ShuffleArray(cards) : cards \in MapCards(sources, globalPool) }

-----------------------------------------------------------------------------
(* The question bank.  src/data/questions is outside the model: a bank is   *)
(* an input, drawn at Init.  Identifiers are unique within a bank.          *)

Source(id, answer, distractors, category) ==
    [id |-> id, prompt |-> <<"prompt", id>>, answer |-> answer,
     distractors |-> distractors, reference |-> <<"reference", id>>,
     category |-> category, imageUrl |-> NULL]

\* Banks of the session specification: few answers, so that the decks a
\* rebuild can produce stay few.
SessionBanks ==
    { <<>>,
      << Source("q1", <<"a">>, <<>>, "signs"),
         Source("q2", <<"b">>, <<>>, "rules") >>,
      << Source("q1", <<"a">>, << <<"b">> >>, "signs"),
         Source("q2", <<"a">>, <<>>, "signs"),
         Source("q3", <<"a">>, <<>>, "rules") >>,
      << Source("q1", <<"a">>, << <<"b">>, <<"B">> >>, "signs"),
         Source("q2", <<"a">>, <<>>, "rules") >> }

SmallTestSize == 2

\* PRACTICE_TEST_SIZE is 50; a bank of more than 50 records is beyond the
\* bounds, so the size is fixed at Init to the source's value or to a scaled
\* one that a bounded bank exceeds.
TestSizes == {PRACTICE_TEST_SIZE, SmallTestSize}

-----------------------------------------------------------------------------
(* App: derived values *)

CategoryOptions ==
    {CATEGORY_ALL} \cup { allSources[i].category : i \in 1..Len(allSources) }

\* a filter that ignores the category
FilteredSourcesUnfiltered(category) == allSources

FilteredSourcesOf(category) ==
    IF category = CATEGORY_ALL THEN allSources
    ELSE SelectSeq(allSources, LAMBDA item : item.category = category)

\* the active category ignored
FilteredSourcesWhole == allSources

FilteredSources == FilteredSourcesOf(activeCategory)

currentQuestion == At(deck, currentIndex)

\* Math.round of num/den for num >= 0, den > 0: halves round up
MathRound(num, den) == (2 * num + den) \div (2 * den)

TotalQuestions(deckLength) == IF deckLength = 0 THEN 1 ELSE deckLength
ScorePercent(count, deckLength) == MathRound(count * 100, TotalQuestions(deckLength))
Passed(count, deckLength) == ScorePercent(count, deckLength) >= 80

\* the branch for an empty deck lost
ViewWithoutEmpty ==
    IF mode = "practiceTest" /\ showSummary THEN "summary" ELSE "card"

\* which of the three render branches of App is on screen
View ==
    IF Len(deck) = 0 THEN "empty"
    ELSE IF mode = "practiceTest" /\ showSummary THEN "summary"
    ELSE "card"

\* the option buttons on screen
OptionButtons ==
    IF View = "card" THEN 0..(Len(currentQuestion.options) - 1) ELSE {}

IdBag(s) ==
    [x \in { s[i].id : i \in 1..Len(s) } |-> Cardinality({ i \in 1..Len(s) : s[i].id = x })]

-----------------------------------------------------------------------------
(* Theme.  The browser is part of the state: localStorage may work, throw   *)
(* on every access, or throw on some ("flaky"); the item 'pt-theme' may be  *)
(* absent, valid, or any other text; matchMedia may or may not report a     *)
(* dark system preference (an absent matchMedia reports none).              *)

ThemeValues == {"light", "dark"}
StoredValues == {NULL, "light", "dark", "sepia"}
StorageKinds == {"works", "throws", "flaky"}

\* whether one access to localStorage throws
Throws(storage) ==
    CASE storage = "works" -> {FALSE}
      [] storage = "throws" -> {TRUE}
      [] OTHER -> BOOLEAN

ThemeEnvs ==
    { env \in [storage : StorageKinds, stored : StoredValues,
               readThrew : BOOLEAN, prefersDark : BOOLEAN] :
        env.readThrew \in Throws(env.storage) }

\* the browser of the session specification: a first visit, storage working
SessionThemeEnvs ==
    { [storage |-> "works", stored |-> NULL, readThrew |-> FALSE, prefersDark |-> FALSE] }

\* the stored value ignored
GetPreferredThemeUnstored(stored, readThrows, prefersDark) ==
    IF prefersDark THEN "dark" ELSE "light"

GetPreferredTheme(stored, readThrows, prefersDark) ==
    IF ~readThrows /\ (stored = "light" \/ stored = "dark") THEN stored
    ELSE IF prefersDark THEN "dark"
    ELSE "light"

\* useState(getPreferredTheme) in one of the given browsers
InitTheme(envs) ==
    /\ themeEnv \in envs
    /\ storedTheme = themeEnv.stored
    /\ theme = GetPreferredTheme(themeEnv.stored, themeEnv.readThrew, themeEnv.prefersDark)

\* The effect with dependencies [theme]: try { setItem('pt-theme', value) }
\* catch { ignore }.  (It also sets the class of the document root.)
ThemeEffect(value) ==
    \E throws \in Throws(themeEnv.storage) :
        storedTheme' = IF throws THEN storedTheme ELSE value

\* the dependencies of the deck-rebuild effect
DeckEffectDepsWithTheme == {"filteredSources", "allSources", "mode", "theme"}

DeckEffectDeps == {"filteredSources", "allSources", "mode"}

-----------------------------------------------------------------------------
(* App: state after construction.  useState builds the first deck from the  *)
(* whole bank; the effects of the first render are still to run.            *)

InitSession ==
    /\ allSources \in SessionBanks
    /\ testSize \in TestSizes
    /\ activeCategory = CATEGORY_ALL
    /\ mode = "study"
    /\ deck \in BuildDeck(allSources, allSources)
    /\ currentIndex = 0
    /\ selectedOption = NONE
    /\ correctCount = 0
    /\ showSummary = FALSE
    /\ effectPending = TRUE
    /\ lastEvent = "mount"
    /\ answered = <<>>
    /\ builtFrom = IdBag(allSources)
    /\ built = <<>>

Init == InitSession /\ InitTheme(SessionThemeEnvs)

\* setDeck(buildDeck(sources, allSources)) for one of the given source lists
\* (one list, or the samples shuffleArray can give)
SetDeckAmong(sourceLists) ==
    /\ \E b \in UNION { { [deck |-> d, from |-> IdBag(sources)] :
                               d \in BuildDeck(sources, allSources) } :
                           sources \in sourceLists } :
          /\ deck' = b.deck
          /\ builtFrom' = b.from
    /\ answered' = <<>>

SetDeck(sources) == SetDeckAmong({sources})

\* if (mode !== 'study') return, with the guard lost
EffectSkipsAlways == TRUE

EffectSkips == mode # "study"

\* The effect with dependencies [filteredSources, allSources, mode].  It runs
\* after the render that changed a dependency and before any further event.
\* After the first render the theme effect runs in the same flush, before it.
RunEffect ==
    /\ effectPending
    /\ effectPending' = FALSE
    /\ \/ /\ EffectSkips
          /\ UNCHANGED <<deck, builtFrom, answered, currentIndex, selectedOption,
                         correctCount, showSummary>>
       \/ /\ ~EffectSkips
          /\ SetDeck(FilteredSources)
          /\ currentIndex' = 0
          /\ selectedOption' = NONE
          /\ correctCount' = 0
          /\ showSummary' = FALSE
    /\ IF lastEvent = "mount" THEN ThemeEffect(theme) ELSE UNCHANGED storedTheme
    /\ UNCHANGED <<theme, themeEnv, allSources, testSize, activeCategory, mode,
                   lastEvent, built>>

\* The category chips are rendered in study mode only (empty and card views).
\* Setting the category it already has changes no dependency of the effect.
HandleCategoryChange(value) ==
    /\ ~effectPending
    /\ mode = "study"
    /\ View \in {"empty", "card"}
    /\ activeCategory' = value
    /\ effectPending' = (value # activeCategory)
    /\ lastEvent' = "handleCategoryChange"
    /\ UNCHANGED <<themeVars, allSources, testSize, mode, deck, currentIndex, selectedOption,
                   correctCount, showSummary, answered, builtFrom, built>>

\* the early return lost: every click is taken
ClickIgnoredNever == FALSE

\* if (selectedOption !== null) return
ClickIgnored == selectedOption # NONE

\* the comparison with answerIndex lost: every click of a practice test counts
CorrectCountAfterAnyClick(optionIndex) ==
    IF mode = "practiceTest" THEN correctCount + 1 ELSE correctCount

\* the test of the mode lost: correct clicks count in study mode too
CorrectCountAfterInAnyMode(optionIndex) ==
    IF optionIndex = currentQuestion.answerIndex
    THEN correctCount + 1 ELSE correctCount

CorrectCountAfter(optionIndex) ==
    IF mode = "practiceTest" /\ optionIndex = currentQuestion.answerIndex
    THEN correctCount + 1 ELSE correctCount

\* An option button of the card view.
HandleOptionClick(optionIndex) ==
    /\ ~effectPending
    /\ View = "card"
    /\ \/ /\ ClickIgnored
          /\ lastEvent' = "handleOptionClick:return"
          /\ UNCHANGED <<selectedOption, correctCount, answered>>
       \/ /\ ~ClickIgnored
          /\ selectedOption' = optionIndex
          /\ correctCount' = CorrectCountAfter(optionIndex)
          /\ answered' = Append(answered, optionIndex)
          /\ lastEvent' = "handleOptionClick"
    /\ UNCHANGED <<themeVars, allSources, testSize, activeCategory, mode, deck, currentIndex,
                   showSummary, effectPending, builtFrom, built>>

\* the Next button never disabled
NextDisabledNever == FALSE

\* disabled={selectedOption === null}
NextDisabled == selectedOption = NONE

\* the summary shown one card early
HasMoreQuestionsEarlyEnd == currentIndex + 2 < Len(deck)

\* the position allowed to run past the last card
HasMoreQuestionsLate == currentIndex < Len(deck)

HasMoreQuestions == currentIndex + 1 < Len(deck)

\* the practice-test branch of handleNext lost
FinishesTestNever == FALSE

\* if (mode === 'practiceTest'), once the deck is exhausted
FinishesTest == mode = "practiceTest"

\* The Next button of the card view.
HandleNext ==
    /\ ~effectPending
    /\ View = "card"
    /\ ~NextDisabled
    /\ lastEvent' = "handleNext"
    /\ \/ /\ HasMoreQuestions
          /\ currentIndex' = currentIndex + 1
          /\ selectedOption' = NONE
          /\ UNCHANGED <<deck, builtFrom, answered, showSummary>>
       \/ /\ ~HasMoreQuestions
          /\ FinishesTest
          /\ showSummary' = TRUE
          /\ UNCHANGED <<deck, builtFrom, answered, currentIndex, selectedOption>>
       \/ /\ ~HasMoreQuestions
          /\ ~FinishesTest
          /\ SetDeck(FilteredSources)
          /\ currentIndex' = 0
          /\ selectedOption' = NONE
          /\ UNCHANGED showSummary
    /\ UNCHANGED <<themeVars, allSources, testSize, activeCategory, mode, correctCount,
                   effectPending, built>>

\* the sample without its slice
SampleSourcesUnsliced(size) == ShuffleArray(allSources)

\* shuffleArray(allSources).slice(0, Math.min(size, allSources.length))
SampleSources(size) ==
    { SubSeq(shuffled, 1, Min(size, Len(allSources))) : shuffled \in ShuffleArray(allSources) }

\* Start Practice Test (card view, study mode) and Retake Practice Test
\* (card and summary views, practice-test mode).  A change of mode schedules
\* the effect, which then returns at once.
StartPracticeTest ==
    /\ ~effectPending
    /\ View \in {"card", "summary"}
    /\ SetDeckAmong(SampleSources(testSize))
    /\ mode' = "practiceTest"
    /\ showSummary' = FALSE
    /\ correctCount' = 0
    /\ currentIndex' = 0
    /\ selectedOption' = NONE
    /\ effectPending' = (mode # "practiceTest")
    /\ lastEvent' = "startPracticeTest"
    /\ UNCHANGED <<themeVars, allSources, testSize, activeCategory, built>>

\* Shuffle Deck, rendered in the card view of study mode only, so the
\* handler's practice-test branch is never taken.
HandleRestart ==
    /\ ~effectPending
    /\ View = "card"
    /\ mode = "study"
    /\ SetDeck(FilteredSources)
    /\ currentIndex' = 0
    /\ selectedOption' = NONE
    /\ lastEvent' = "handleRestart"
    /\ UNCHANGED <<themeVars, allSources, testSize, activeCategory, mode, correctCount,
                   showSummary, effectPending, built>>

\* Back to Study Deck, rendered in practice-test mode (card and summary views).
ExitPracticeTest ==
    /\ ~effectPending
    /\ View \in {"card", "summary"}
    /\ mode = "practiceTest"
    /\ mode' = "study"
    /\ showSummary' = FALSE
    /\ correctCount' = 0
    /\ effectPending' = TRUE
    /\ lastEvent' = "exitPracticeTest"
    /\ UNCHANGED <<themeVars, allSources, testSize, activeCategory, deck, currentIndex,
                   selectedOption, answered, builtFrom, built>>

\* setTheme(prev => prev === 'light' ? 'dark' : 'light')
Flip(prev) == IF prev = "light" THEN "dark" ELSE "light"

\* The theme button, rendered in all three views.  The render it causes runs
\* the theme effect, and the deck-rebuild effect only if theme is one of its
\* dependencies.
ToggleTheme ==
    /\ ~effectPending
    /\ theme' = Flip(theme)
    /\ ThemeEffect(theme')
    /\ effectPending' = ("theme" \in DeckEffectDeps)
    /\ lastEvent' = "toggleTheme"
    /\ UNCHANGED <<themeEnv, allSources, testSize, activeCategory, mode, deck,
                   currentIndex, selectedOption, correctCount, showSummary,
                   answered, builtFrom, built>>

Next ==
    \/ RunEffect
    \/ \E value \in CategoryOptions : HandleCategoryChange(value)
    \/ \E optionIndex \in OptionButtons : HandleOptionClick(optionIndex)
    \/ HandleNext
    \/ HandleRestart
    \/ StartPracticeTest
    \/ ExitPracticeTest
    \/ ToggleTheme

Spec == Init /\ [][Next]_vars

-----------------------------------------------------------------------------
(* The theme on its own: startup in every browser, then the first effects   *)
(* and any number of toggles.                                               *)

InitBrowsers == InitSession /\ InitTheme(ThemeEnvs)

NextTheme ==
    \/ RunEffect
    \/ ToggleTheme

SpecTheme == InitBrowsers /\ [][NextTheme]_vars

-----------------------------------------------------------------------------
(* A user who keeps answering and advancing: study, at most one start of a  *)
(* practice test, and from then on only option clicks and Next.  React runs *)
(* a scheduled effect; the user is assumed to go on clicking an option and  *)
(* pressing Next whenever these do something.                               *)

\* Start Practice Test, the button of study mode
BeginPracticeTest == mode = "study" /\ StartPracticeTest

NextAdvance ==
    \/ RunEffect
    \/ \E optionIndex \in OptionButtons : HandleOptionClick(optionIndex)
    \/ HandleNext
    \/ BeginPracticeTest

SpecAdvance ==
    /\ Init
    /\ [][NextAdvance]_vars
    /\ WF_vars(RunEffect)
    /\ WF_vars(\E optionIndex \in OptionButtons : HandleOptionClick(optionIndex))
    /\ WF_vars(HandleNext)

-----------------------------------------------------------------------------
(* buildOptions on its own: the call buildDeck makes for one record of a    *)
(* bank (lines 92-93), over banks whose answers and curated distractors     *)
(* differ by case and surrounding whitespace.                               *)

MaxOthers == 3

SourceAnswers == { <<"a">>, <<" ", "A">> }

CuratedLists ==
    { <<>>,
      << <<"b">>, <<"B">> >>,
      << <<>>, <<"a", " ">>, <<"d">> >>,
      << <<"b">>, <<"c">>, <<"d">> >> }

OtherAnswerPool == << <<"A">>, <<"b">>, <<"B", " ">>, <<"c">>, <<"d">> >>

Categories == <<"signs", "rules">>

\* the answer and category of another record: one of the pool, one of the
\* categories
NumChoices == Len(OtherAnswerPool) * Len(Categories)

OtherChoice(k) ==
    [answer |-> OtherAnswerPool[((k - 1) \div Len(Categories)) + 1],
     category |-> Categories[((k - 1) % Len(Categories)) + 1]]

\* buildOptions shuffles both pools, so the order of the other records in
\* the bank is immaterial: they are listed in non-decreasing order of choice
OrderedChoices(n) ==
    { picks \in [1..n -> 1..NumChoices] :
        \A i \in 1..(n - 1) : picks[i] <= picks[i + 1] }

OtherIds == <<"q2", "q3", "q4", "q5", "q6">>

\* the first record carries the curated list; up to MaxOthers records follow
BuildBanks ==
    UNION { { <<Source("q1", answer, curated, "signs")>> \o
              [i \in 1..n |-> Source(OtherIds[i], OtherChoice(picks[i]).answer, <<>>,
                                     OtherChoice(picks[i]).category)] :
                answer \in SourceAnswers, curated \in CuratedLists,
                picks \in OrderedChoices(n) } : n \in 0..MaxOthers }

InitBuild ==
    /\ allSources \in BuildBanks
    /\ testSize = PRACTICE_TEST_SIZE
    /\ activeCategory = CATEGORY_ALL
    /\ mode = "study"
    /\ deck = <<>>
    /\ currentIndex = 0
    /\ selectedOption = NONE
    /\ correctCount = 0
    /\ showSummary = FALSE
    /\ effectPending = FALSE
    /\ lastEvent = "none"
    /\ answered = <<>>
    /\ builtFrom = IdBag(<<>>)
    /\ built = <<>>
    /\ InitTheme(SessionThemeEnvs)

BuildOptionsCall(i) ==
    /\ built = <<>>
    /\ LET source == allSources[i] IN
       \E r \in BuildOptions(source, CategoryPool(allSources, source), allSources) :
          built' = << [source |-> source, options |-> r.options,
                       answerIndex |-> r.answerIndex] >>
    /\ UNCHANGED <<themeVars, allSources, testSize, activeCategory, mode, deck, currentIndex,
                   selectedOption, correctCount, showSummary, effectPending,
                   lastEvent, answered, builtFrom>>

NextBuild == \E i \in 1..Len(allSources) : BuildOptionsCall(i)

SpecBuild == InitBuild /\ [][NextBuild]_vars

-----------------------------------------------------------------------------
(* Properties of buildOptions *)

Normalize(text) == ToLowerCase(Trim(text))

\* the pairs of distinct positions of a sequence
Pairs(seq) == { p \in (1..Len(seq)) \X (1..Len(seq)) : p[1] < p[2] }

\* the answers of the other records, case-folded and trimmed, that are
\* neither empty nor the answer of `source`
OtherDistinctAnswers(source) ==
    { Normalize(allSources[i].answer) :
        i \in { j \in 1..Len(allSources) : allSources[j].id # source.id } }
    \ { <<>>, Normalize(source.answer) }

\* the same over curated distractors and other answers together
AdmissibleWrongAnswers(source) ==
    ({ Normalize(source.distractors[i]) : i \in 1..Len(source.distractors) }
        \ { <<>>, Normalize(source.answer) })
    \cup OtherDistinctAnswers(source)

\* C1: when the bank holds at least 3 other distinct answers, buildOptions
\* returns exactly 4 options, pairwise distinct when compared without regard
\* to case, exactly one of them the source answer, at position answerIndex.
C1_FourDistinctOptions ==
    \A r \in Range(built) :
        Cardinality(OtherDistinctAnswers(r.source)) >= 3 =>
            /\ Len(r.options) = 4
            /\ \A p \in Pairs(r.options) :
                  ToLowerCase(r.options[p[1]]) # ToLowerCase(r.options[p[2]])
            /\ Cardinality({ i \in 1..Len(r.options) : r.options[i] = r.source.answer }) = 1
            /\ At(r.options, r.answerIndex) = r.source.answer

\* C6: for any bank buildOptions returns 1 to 4 options, fewer than 4
\* exactly when fewer than 3 admissible distinct wrong answers exist, and
\* answerIndex is always the position of the source answer.
C6_DegenerateBank ==
    \A r \in Range(built) :
        /\ Len(r.options) \in 1..4
        /\ (Len(r.options) < 4) <=> (Cardinality(AdmissibleWrongAnswers(r.source)) < 3)
        /\ r.answerIndex \in 0..(Len(r.options) - 1)
        /\ At(r.options, r.answerIndex) = r.source.answer

\* the wrong options of a result: every option but the one at answerIndex
WrongOptions(r) ==
    { r.options[i] : i \in (1..Len(r.options)) \ {r.answerIndex + 1} }

\* the curated distractors of a record, trimmed
CuratedTrimmed(source) ==
    { Trim(source.distractors[i]) : i \in 1..Len(source.distractors) }

\* the answers of the other records, trimmed: of its category, and of the bank
CategoryAnswersTrimmed(source) ==
    { Trim(allSources[i].answer) :
        i \in { j \in 1..Len(allSources) :
                  allSources[j].id # source.id /\ allSources[j].category = source.category } }

GlobalAnswersTrimmed(source) ==
    { Trim(allSources[i].answer) :
        i \in { j \in 1..Len(allSources) : allSources[j].id # source.id } }

\* the admissible distinct candidates among a set of trimmed texts: not
\* empty, not the answer of `source`, counted without regard to case
Admissible(texts, source) ==
    { ToLowerCase(t) : t \in texts } \ { <<>>, Normalize(source.answer) }

\* C12: curated distractors come first, then answers of the category, then
\* answers of the bank.  A wrong option that is no curated distractor appears
\* only if fewer than 3 curated distractors are admissible, and then every
\* admissible curated distractor is an option; a wrong option that is neither
\* curated nor an answer of the category appears only if curated distractors
\* and answers of the category supply fewer than 3 admissible candidates, and
\* then every admissible answer of the category is an option.  Every wrong
\* option comes from one of the three sources, and none is the record's own
\* answer, whatever its case and surrounding whitespace.
C12_DistractorPriority ==
    \A r \in Range(built) :
        LET source == r.source
            curated == CuratedTrimmed(source)
            ofCategory == CategoryAnswersTrimmed(source)
            wrong == WrongOptions(r)
        IN  /\ wrong \subseteq (curated \cup GlobalAnswersTrimmed(source))
            /\ (wrong \ curated # {}) =>
                  /\ Cardinality(Admissible(curated, source)) < 3
                  /\ \A c \in curated :
                        Admissible({c}, source) # {} => c \in wrong
            /\ (wrong \ (curated \cup ofCategory) # {}) =>
                  /\ Cardinality(Admissible(curated \cup ofCategory, source)) < 3
                  /\ \A c \in ofCategory :
                        Admissible({c}, source) # {} => c \in wrong
            /\ \A i \in (1..Len(r.options)) \ {r.answerIndex + 1} :
                  /\ Normalize(r.options[i]) # Normalize(source.answer)
                  /\ r.options[i] # <<>>

\* one curated distractor, one answer of the category and one of another
\* category were all needed
C12_Witness ==
    \E r \in Range(built) :
        LET curated == CuratedTrimmed(r.source)
            ofCategory == CategoryAnswersTrimmed(r.source)
            wrong == WrongOptions(r)
        IN  /\ Len(r.options) = 4
            /\ wrong \cap curated # {}
            /\ (wrong \cap ofCategory) \ curated # {}
            /\ wrong \ (curated \cup ofCategory) # {}

-----------------------------------------------------------------------------
(* Properties of the decks of the session *)

\* C5: no card of a deck has two options equal after trimming and
\* case-folding, and exactly one option equals the answer in that sense.
C5_NoDuplicateOptions ==
    \A c \in Range(deck) :
        /\ \A p \in Pairs(c.options) :
              Normalize(c.options[p[1]]) # Normalize(c.options[p[2]])
        /\ Cardinality({ i \in 1..Len(c.options) :
                           Normalize(c.options[i]) = Normalize(c.answer) }) = 1


DeckIds == { deck[i].id : i \in 1..Len(deck) }
DeckCategories == { deck[i].category : i \in 1..Len(deck) }

\* the number of elements of a bag of identifiers
RECURSIVE BagSizeOver(_, _)
BagSizeOver(bag, ids) ==
    IF ids = {} THEN 0
    ELSE LET x == CHOOSE y \in ids : TRUE
         IN  bag[x] + BagSizeOver(bag, ids \ {x})

BagSize(bag) == BagSizeOver(bag, DOMAIN bag)

\* the cards of this deck on which the recorded click is the correct option
CorrectlyAnswered ==
    { i \in 1..Len(deck) : i <= Len(answered) /\ answered[i] = deck[i].answerIndex }

\* C2: when the summary of a practice test is shown, every card has been
\* answered once, correctCount is the number K of cards answered correctly,
\* and the pass flag is round(100*K/N) >= 80, that is 100*K/N >= 79.5.  The
\* last conjunct states the pass flag for every deck size up to
\* PRACTICE_TEST_SIZE, sizes that the decks of the bounded banks do not reach.
C2_PracticeScoring ==
    (mode = "practiceTest" /\ showSummary) =>
        LET N == Len(deck)
            K == Cardinality(CorrectlyAnswered)
        IN  /\ Len(answered) = N
            /\ correctCount = K
            /\ Passed(correctCount, N) <=> (200 * K >= 159 * N)
            /\ \A n \in 1..PRACTICE_TEST_SIZE : \A k \in 0..n :
                  Passed(k, n) <=> (200 * k >= 159 * n)

\* a summary after a test with both a correct and an incorrect answer
C2_Witness ==
    /\ mode = "practiceTest" /\ showSummary
    /\ Len(deck) = 3
    /\ correctCount = 2
    /\ Cardinality(CorrectlyAnswered) = 2

\* C3: the deck has as many cards as the sources buildDeck was given, with
\* the same multiset of identifiers; from no sources it is the empty deck.
C3_DeckKeepsIdentifiers ==
    /\ Len(deck) = BagSize(builtFrom)
    /\ IdBag(deck) = builtFrom
    /\ (BagSize(builtFrom) = 0) => deck = <<>>

\* a deck rebuilt by Shuffle Deck in another order than its sources
C3_Witness ==
    /\ lastEvent = "handleRestart"
    /\ Len(deck) = 3
    /\ deck[1].id = "q3" /\ deck[2].id = "q1" /\ deck[3].id = "q2"

\* the step of the deck-rebuild effect
EffectStep == effectPending /\ ~effectPending'

\* the identifiers of the bank's records that a filter value lets through
IdsOfCategory(category) ==
    { allSources[i].id :
        i \in { j \in 1..Len(allSources) :
                  category = CATEGORY_ALL \/ allSources[j].category = category } }

\* the deck holds exactly the records of `category`, each once
DeckMatchesFilter(d, category) ==
    /\ { d[i].id : i \in 1..Len(d) } = IdsOfCategory(category)
    /\ Len(d) = Cardinality(IdsOfCategory(category))
    /\ category # CATEGORY_ALL => \A i \in 1..Len(d) : d[i].category = category

\* C4: in study mode, once the rebuild that a category change triggers has
\* run, the deck holds exactly the bank's records of that category (every
\* record for "all"), at the first card with no selection.
C4_FilterRebuild ==
    [][(EffectStep /\ lastEvent = "handleCategoryChange") =>
          /\ mode' = "study"
          /\ DeckMatchesFilter(deck', activeCategory)
          /\ currentIndex' = 0
          /\ selectedOption' = NONE]_vars

\* the filter went from "all" to "rules", and the deck lost the other cards
C4_Witness ==
    /\ lastEvent = "handleCategoryChange" /\ ~effectPending
    /\ activeCategory = "rules"
    /\ Len(allSources) = 3
    /\ DeckIds = {"q3"}
    /\ currentIndex = 0 /\ selectedOption = NONE

\* C7: a click on a card that already has a selection changes no session
\* field; correctCount grows only by 1, only in a practice test, only with
\* the first selection of a card, and only when that is its answerIndex.
C7_SelectOnce ==
    [][/\ (selectedOption # NONE
            /\ lastEvent' \in {"handleOptionClick", "handleOptionClick:return"}) =>
              UNCHANGED <<allSources, activeCategory, mode, deck, currentIndex,
                          selectedOption, correctCount, showSummary, effectPending>>
       /\ (correctCount' > correctCount) =>
              /\ correctCount' = correctCount + 1
              /\ mode = "practiceTest"
              /\ selectedOption = NONE
              /\ selectedOption' = currentQuestion.answerIndex
              /\ UNCHANGED <<deck, currentIndex>>
       /\ (selectedOption = NONE /\ selectedOption' # NONE /\ mode = "study") =>
              correctCount' = correctCount]_vars

\* a second click on a practice-test card answered correctly was ignored
C7_Witness ==
    /\ lastEvent = "handleOptionClick:return"
    /\ mode = "practiceTest"
    /\ Len(currentQuestion.options) > 1
    /\ selectedOption = currentQuestion.answerIndex
    /\ correctCount = 1

\* the step of startPracticeTest
StartStep == ~effectPending /\ lastEvent' = "startPracticeTest"

\* C8: starting or retaking a practice test builds a deck of min(size, bank
\* size) cards with distinct identifiers of the bank, whatever the filter,
\* and enters the test with count 0, position 0, no selection and no summary,
\* the filter unchanged; the effect the change of mode schedules alters none.
C8_StartPracticeTest ==
    [][/\ StartStep =>
              /\ Len(deck') = Min(testSize, Len(allSources))
              /\ testSize = PRACTICE_TEST_SIZE =>
                    Len(deck') = Min(50, Len(allSources))
              /\ \A p \in Pairs(deck') : deck'[p[1]].id # deck'[p[2]].id
              /\ { deck'[i].id : i \in 1..Len(deck') } \subseteq
                    { allSources[i].id : i \in 1..Len(allSources) }
              /\ mode' = "practiceTest"
              /\ correctCount' = 0
              /\ currentIndex' = 0
              /\ selectedOption' = NONE
              /\ showSummary' = FALSE
              /\ activeCategory' = activeCategory
       /\ (EffectStep /\ lastEvent = "startPracticeTest") =>
              UNCHANGED <<mode, deck, currentIndex, selectedOption, correctCount,
                          showSummary, activeCategory>>]_vars

\* a test of fewer cards than the bank, with a card outside the filter
C8_Witness ==
    /\ lastEvent = "startPracticeTest" /\ ~effectPending
    /\ mode = "practiceTest"
    /\ activeCategory = "rules"
    /\ Len(allSources) = 3 /\ Len(deck) = 2
    /\ "signs" \in DeckCategories

\* the step of exitPracticeTest
ExitStep == ~effectPending /\ lastEvent' = "exitPracticeTest"

\* C9: exiting a practice test clears score and summary and schedules the
\* rebuild; once that has run the session is in study mode on a deck of
\* exactly the records of the active filter, at position 0 with no selection.
C9_ExitPracticeTest ==
    [][/\ ExitStep =>
              /\ mode = "practiceTest" /\ mode' = "study"
              /\ effectPending'
              /\ correctCount' = 0
              /\ showSummary' = FALSE
              /\ activeCategory' = activeCategory
       /\ (EffectStep /\ lastEvent = "exitPracticeTest") =>
              /\ mode' = "study"
              /\ DeckMatchesFilter(deck', activeCategory)
              /\ currentIndex' = 0
              /\ selectedOption' = NONE
              /\ correctCount' = 0
              /\ showSummary' = FALSE
              /\ answered' = <<>>]_vars

\* back in study mode from a summary, on the deck of the "rules" filter
C9_Witness ==
    /\ lastEvent = "exitPracticeTest" /\ ~effectPending
    /\ mode = "study"
    /\ activeCategory = "rules"
    /\ Len(allSources) = 3
    /\ DeckIds = {"q3"}
    /\ currentIndex = 0 /\ selectedOption = NONE /\ correctCount = 0 /\ ~showSummary

\* the step of handleNext
NextStep == lastEvent' = "handleNext" /\ ~effectPending

\* C10: advancing needs a selection.  With cards left it moves one card on
\* and clears the selection; at the end of a study deck it rebuilds the deck
\* of the filter at position 0; at the end of a practice test it sets the
\* summary flag and leaves deck, position and count as they are.
C10_Advance ==
    [][NextStep =>
          /\ selectedOption # NONE
          /\ UNCHANGED <<mode, activeCategory, correctCount>>
          /\ (currentIndex + 1 < Len(deck)) =>
                /\ currentIndex' = currentIndex + 1
                /\ selectedOption' = NONE
                /\ UNCHANGED <<deck, showSummary>>
          /\ (currentIndex + 1 >= Len(deck) /\ mode = "study") =>
                /\ DeckMatchesFilter(deck', activeCategory)
                /\ currentIndex' = 0
                /\ selectedOption' = NONE
                /\ showSummary' = FALSE
          /\ (currentIndex + 1 >= Len(deck) /\ mode = "practiceTest") =>
                /\ showSummary'
                /\ UNCHANGED <<deck, currentIndex, selectedOption>>]_vars

\* the last card of a practice test was advanced from
C10_Witness ==
    /\ lastEvent = "handleNext"
    /\ mode = "practiceTest" /\ showSummary
    /\ currentIndex = Len(deck) - 1
    /\ Len(deck) = 2

-----------------------------------------------------------------------------
(* The empty deck, shuffle, and the invariants of the session *)

\* C11: the deck is empty exactly when the active filter lets no record of
\* the bank through; the empty branch is then on screen, with no option
\* button and no Next to press, so that no handler reads a current card.
\* The filter values offered are "all" and the categories of the bank's
\* records, so with an empty deck no offered filter has a record.
C11_EmptyDeck ==
    /\ (Len(deck) = 0) <=> (Len(FilteredSources) = 0)
    /\ (Len(deck) = 0) =>
          /\ View = "empty"
          /\ OptionButtons = {}
          /\ ~ENABLED HandleNext
          /\ \A value \in CategoryOptions : Len(FilteredSourcesOf(value)) = 0

\* the empty screen, after a press of the only filter chip it offers
C11_Witness ==
    /\ Len(deck) = 0
    /\ mode = "study"
    /\ lastEvent = "handleCategoryChange" /\ ~effectPending

\* the step of handleRestart
RestartStep == ~effectPending /\ lastEvent' = "handleRestart"

\* C13: Shuffle Deck is pressed in study mode, with or without a selection;
\* it leaves a deck of exactly the records of the active filter, position 0,
\* no selection, count 0, no summary, and mode and filter as they were.
C13_Restart ==
    [][RestartStep =>
          /\ mode = "study" /\ mode' = "study"
          /\ activeCategory' = activeCategory
          /\ DeckMatchesFilter(deck', activeCategory)
          /\ builtFrom' = IdBag(deck')
          /\ currentIndex' = 0
          /\ selectedOption' = NONE
          /\ correctCount' = 0
          /\ showSummary' = FALSE
          /\ effectPending' = FALSE]_vars

\* a shuffle of the "signs" deck, pressed on its second card
C13_Witness ==
    /\ lastEvent = "handleRestart"
    /\ mode = "study"
    /\ activeCategory = "signs"
    /\ Len(allSources) = 3
    /\ DeckIds = {"q1", "q2"}
    /\ currentIndex = 0 /\ selectedOption = NONE /\ correctCount = 0

\* C15: in every state, a pending rebuild included, the deck is empty or
\* the position is one of its cards, and the selection is unset or the index
\* of an option of the current card.
C15_PositionInDeck ==
    /\ Len(deck) = 0 \/ (0 <= currentIndex /\ currentIndex < Len(deck))
    /\ Len(deck) = 0 => selectedOption = NONE
    /\ (Len(deck) > 0 /\ selectedOption # NONE) =>
          (0 <= selectedOption /\ selectedOption < Len(currentQuestion.options))

\* a practice test left on its second card with a selection, rebuild pending
C15_Witness ==
    /\ effectPending
    /\ lastEvent = "exitPracticeTest"
    /\ currentIndex = 1
    /\ selectedOption # NONE

\* C16: the summary flag is set only in a practice test, at the last card
\* of the deck with a selection, every card answered; correctCount is then
\* between 0 and the deck length, and so is the incorrect count shown.
C16_SummaryAtEnd ==
    /\ 0 <= correctCount /\ correctCount <= Len(deck)
    /\ showSummary =>
          /\ mode = "practiceTest"
          /\ Len(deck) > 0
          /\ currentIndex = Len(deck) - 1
          /\ selectedOption # NONE
          /\ Len(answered) = Len(deck)
          /\ TotalQuestions(Len(deck)) - correctCount >= 0

\* a summary with every answer wrong
C16_Witness ==
    /\ showSummary
    /\ Len(deck) = 2
    /\ correctCount = 0
    /\ Cardinality(CorrectlyAnswered) = 0

\* C17: in study mode correctCount is 0 and the summary flag is false.
C17_StudyHasNoScore ==
    (mode = "study") => (correctCount = 0 /\ showSummary = FALSE)

\* the answer of a study card selected, and not counted
C17_Witness ==
    /\ mode = "study"
    /\ lastEvent = "handleOptionClick"
    /\ Len(currentQuestion.options) > 1
    /\ selectedOption = currentQuestion.answerIndex
    /\ correctCount = 0

\* C18: a theme toggle changes no field of the session and schedules no
\* rebuild of the deck.
C18_ToggleFrame ==
    [][(theme' # theme) =>
          /\ UNCHANGED <<mode, activeCategory, deck, currentIndex, selectedOption,
                         correctCount, showSummary, answered, builtFrom>>
          /\ effectPending = FALSE /\ effectPending' = FALSE]_vars

\* the theme toggled on the second card of a practice test, score 1
C18_Witness ==
    /\ lastEvent = "toggleTheme"
    /\ theme = "dark"
    /\ mode = "practiceTest"
    /\ currentIndex = 1
    /\ selectedOption # NONE
    /\ correctCount = 1

-----------------------------------------------------------------------------
(* Theme *)

\* the theme a browser should start with
ExpectedTheme(env) ==
    CASE ~env.readThrew /\ env.stored = "light" -> "light"
      [] ~env.readThrew /\ env.stored = "dark" -> "dark"
      [] OTHER -> IF env.prefersDark THEN "dark" ELSE "light"

\* C14: the first theme is the stored value when it was read and is "light"
\* or "dark", else "dark" when the system prefers dark, else "light"; the
\* first effects keep it.  A toggle is always possible, flips the theme, and
\* stores the new value when the write succeeds; when the write throws the
\* theme is toggled all the same and the stored item is left as it was.
C14_ThemePreference ==
    [][/\ theme \in ThemeValues
       /\ effectPending => ENABLED RunEffect
       /\ ~effectPending => ENABLED ToggleTheme
       /\ (lastEvent = "mount" /\ effectPending) =>
              /\ theme = ExpectedTheme(themeEnv)
              /\ theme' = theme
              /\ storedTheme' \in {theme, storedTheme}
              /\ themeEnv.storage = "works" => storedTheme' = theme
              /\ themeEnv.storage = "throws" => storedTheme' = storedTheme
       /\ (~effectPending /\ lastEvent' = "toggleTheme") =>
              /\ theme' \in ThemeValues \ {theme}
              /\ storedTheme' \in {theme', storedTheme}
              /\ themeEnv.storage = "works" => storedTheme' = theme'
              /\ themeEnv.storage = "throws" => storedTheme' = storedTheme]_vars

\* a toggle to light whose write threw, after a write of "dark" that worked,
\* in a browser that held another text and prefers dark
C14_Witness ==
    /\ lastEvent = "toggleTheme"
    /\ themeEnv.storage = "flaky"
    /\ themeEnv.stored = "sepia"
    /\ themeEnv.prefersDark
    /\ theme = "light"
    /\ storedTheme = "dark"

-----------------------------------------------------------------------------
(* Completion of a practice test *)

\* the selections and advances a practice test still needs
Remaining ==
    IF showSummary THEN 0
    ELSE 2 * (Len(deck) - currentIndex) - (IF selectedOption = NONE THEN 0 ELSE 1)

\* C19: for a user who keeps selecting and advancing and never restarts or
\* exits, a practice test in progress reaches its summary; every selection
\* taken and every advance brings it one step nearer, one selection and one
\* advance per card, and the summary comes with every card answered.  In
\* study mode no summary appears: from past the start of a deck the user
\* comes to position 0 of a rebuilt deck of the same filter (or starts a
\* practice test).
C19_TestCompletes ==
    /\ (mode = "practiceTest" /\ Len(deck) > 0 /\ ~showSummary) ~> showSummary
    /\ [][(mode = "practiceTest" /\ mode' = "practiceTest") =>
             /\ Remaining' =
                   Remaining - (IF lastEvent' \in {"handleOptionClick", "handleNext"}
                                THEN 1 ELSE 0)
             /\ showSummary' => Len(answered') = Len(deck')]_vars
    /\ [](mode = "study" => ~showSummary)
    /\ (mode = "study" /\ Len(deck) > 0 /\ selectedOption # NONE) ~>
          \/ mode = "practiceTest"
          \/ /\ mode = "study"
             /\ lastEvent = "handleNext"
             /\ currentIndex = 0 /\ selectedOption = NONE
             /\ DeckMatchesFilter(deck, activeCategory)

\* the summary of a test of three cards, reached by the last advance
C19_Witness ==
    /\ showSummary
    /\ lastEvent = "handleNext"
    /\ Len(deck) = 3
    /\ Len(answered) = 3
    /\ Remaining = 0

====
